---- MODULE Spec2Model ----
(***************************************************************************)
(* Model of the two scripts of the repository:                             *)
(*   scripts/db_server.py     a Flask app, wrapped by CORS, whose view     *)
(*                            serve_db sends the file sqlite.db            *)
(*   scripts/sqlite_server.py a launcher that runs the tool sqlite_web on  *)
(*                            the same file with subprocess.run            *)
(* The file system, the TCP ports and the HTTP clients are the             *)
(* environment.  The library calls the scripts make (Flask routing,        *)
(* send_file, CORS, subprocess.run, os.path.abspath) are modelled by what  *)
(* they do with the arguments the scripts pass, defaults included.         *)
(***************************************************************************)
EXTENDS Integers, Sequences, FiniteSets, TLC

VARIABLES
    cwd,        \* current working directory the scripts are run from
    fs,         \* file system: state of each tracked file
    port,       \* owner of each TCP port on 0.0.0.0
    srv,        \* db_server.py: "init", "serving" or "failed"
    req,        \* db_server.py: the last request handled (or NoReq)
    resp,       \* db_server.py: the response to it (or NoResp)
    pcL,        \* sqlite_server.py: position of the script
    dbPathL,    \* sqlite_server.py: its local db_path
    argvL,      \* sqlite_server.py: the argument list given to subprocess.run
    spawns,     \* sqlite_server.py: number of child processes started
    child,      \* the sqlite_web child: "none", "started", "listening", "exited"
    childRc,    \* exit status of the child (-1 while it has none)
    exitL       \* exit status of sqlite_server.py (-1 while it runs)

vars == <<cwd, fs, port, srv, req, resp, pcL, dbPathL, argvL, spawns, child,
          childRc, exitL>>

srvVars == <<srv, req, resp>>
lauVars == <<pcL, dbPathL, argvL, spawns, child, childRc, exitL>>

----------------------------------------------------------------------------
(* Bounds of the model *)

\* longest file content, in bytes
MaxLen == 2

----------------------------------------------------------------------------
(* Paths.  A path is a record: abs says whether it starts at the root,     *)
(* parts are its components.                                               *)

RelPath(parts) == [abs |-> FALSE, parts |-> parts]
AbsPath(parts) == [abs |-> TRUE, parts |-> parts]

\* the directory the project is checked out in, and scripts/ in it
AppDir == AbsPath(<<"srv", "app">>)
ScriptDir == AbsPath(<<"srv", "app", "scripts">>)

\* the file name both scripts use
DbName == RelPath(<<"sqlite.db">>)

\* os.path.join(dir, p)
Join(dir, p) == IF p.abs THEN p ELSE [abs |-> dir.abs, parts |-> dir.parts \o p.parts]

\* Flask(__name__): the app's root_path is the directory of the script and
\* its static_folder the directory "static" in it
StaticDir == Join(ScriptDir, RelPath(<<"static">>))

\* directories the scripts may be run from
Cwds == {AppDir, StaticDir}


\* contents of a file: the bytes 1, 2, ..., n
RECURSIVE Content(_)
Content(n) == IF n = 0 THEN <<>> ELSE Append(Content(n - 1), n)
Contents == {Content(n) : n \in 0..MaxLen}

\* a file is absent, present but unreadable (permission denied), or readable
\* with its content
Absent == [kind |-> "absent", data |-> <<>>]
Unreadable == [kind |-> "unreadable", data |-> <<>>]
Readable(c) == [kind |-> "file", data |-> c]
FileStates == {Absent, Unreadable} \cup {Readable(c) : c \in Contents}

\* os.path.abspath(p): p joined to the current working directory
abspath(p) == Join(cwd, p)

\* files the model tracks: sqlite.db in the working directory and sqlite.db in
\* the app's static folder (one file when that is the working directory)
Files == {abspath(DbName), Join(StaticDir, DbName)}

\* state of the file at path p (absent when the model does not track it)
Stat(p) == IF p \in DOMAIN fs THEN fs[p] ELSE Absent

----------------------------------------------------------------------------
(* HTTP requests and responses of db_server.py *)

\* POST stands for every method the routes do not accept (PUT, DELETE, ...)
Methods == {"GET", "HEAD", "OPTIONS", "POST"}

\* request paths, as their segments: /sqlite.db, /static/sqlite.db, /other
UrlDb == <<"sqlite.db">>
UrlStatic == <<"static", "sqlite.db">>
UrlOther == <<"other">>
Urls == {UrlDb, UrlStatic, UrlOther}

\* the Origin header of a request ("none" when the request has none)
NoOrigin == "none"
Origins == {NoOrigin, "http://a.example"}

\* the conditional part of a request: none, a validator that matches the
\* file as it is (If-None-Match / If-Modified-Since), or Range: bytes=0-0
Conds == {"none", "fresh", "range"}

Requests == [method : Methods, url : Urls, origin : Origins, cond : Conds]

NoReq == [method |-> "none", url |-> <<>>, origin |-> NoOrigin, cond |-> "none"]

\* bodies: the bytes of a file, the framework's error page, or nothing
FileBody(c) == [kind |-> "file", data |-> c]
ErrorPage == [kind |-> "html", data |-> <<>>]
NoBody == [kind |-> "empty", data |-> <<>>]

NoPath == RelPath(<<>>)

\* Content-Disposition for a download name
Disposition(as_attachment, download_name) ==
    IF as_attachment THEN <<"attachment", download_name>>
    ELSE <<"inline", download_name>>
NoDisposition == <<"none", "">>

NoResp == [status |-> 0, mimetype |-> "none", disposition |-> NoDisposition,
           body |-> NoBody, acao |-> "none", endpoint |-> "none", read |-> NoPath]

\* the framework's default response to an error: an HTML page with the
\* error's status, from the view named endpoint, after reading file read
ErrorResponse(status, endpoint, read) ==
    [status |-> status, mimetype |-> "text/html", disposition |-> NoDisposition,
     body |-> ErrorPage, acao |-> "none", endpoint |-> endpoint, read |-> read]

\* the arguments serve_db gives send_file
SqliteMime == "application/x-sqlite3"
DownloadName == "sqlite.db"

\* send_file with a handler of its own for the missing file: an empty download
send_file_lenient(path, mimetype, as_attachment, download_name, endpoint, r) ==
    LET st == Stat(path)
    IN  [status |-> 200, mimetype |-> mimetype,
         disposition |-> Disposition(as_attachment, download_name),
         body |-> FileBody(IF st.kind = "file" THEN st.data ELSE <<>>),
         acao |-> "none", endpoint |-> endpoint, read |-> path]

\* send_file(path, mimetype, as_attachment, download_name) for request r,
\* conditional=True by default: the file is stat'ed and opened; a missing or
\* unreadable file raises OSError, which no code catches, so the framework
\* answers 500.  A matching validator gives 304 without a body, a
\* satisfiable range 206 with the part asked for, an unsatisfiable one 416.
send_file(path, mimetype, as_attachment, download_name, endpoint, r) ==
    LET st == Stat(path)
        ok(status, mt, body) ==
            [status |-> status, mimetype |-> mt,
             disposition |-> Disposition(as_attachment, download_name),
             body |-> body, acao |-> "none", endpoint |-> endpoint, read |-> path]
    IN  IF st.kind # "file" THEN ErrorResponse(500, endpoint, path)
        ELSE IF r.cond = "fresh" THEN ok(304, "none", NoBody)
        ELSE IF r.cond = "range" THEN
            IF Len(st.data) = 0 THEN ErrorResponse(416, endpoint, path)
            ELSE ok(206, mimetype, FileBody(SubSeq(st.data, 1, 1)))
        ELSE ok(200, mimetype, FileBody(st.data))

\* serve_db without as_attachment=True
serve_db_inline(r) ==
    send_file(abspath(DbName), SqliteMime, FALSE, DownloadName, "serve_db", r)

\* serve_db answering from the previous exchange when there is one
serve_db_cached(r) ==
    IF resp.endpoint = "serve_db" /\ req.cond = r.cond THEN resp
    ELSE send_file(abspath(DbName), SqliteMime, TRUE, DownloadName, "serve_db", r)

\* the view function of the route /sqlite.db
serve_db(r) ==
    LET db_path == abspath(DbName)
    IN  send_file(db_path, SqliteMime, TRUE, DownloadName, "serve_db", r)

\* the view Flask(__name__) registers by default for /static/<path:filename>:
\* send_from_directory(static_folder, filename), 404 unless it is a file
static_view(r) ==
    LET path == Join(StaticDir, RelPath(Tail(r.url)))
    IN  IF Stat(path).kind = "absent" THEN ErrorResponse(404, "static", path)
        ELSE send_file(path, "application/octet-stream", FALSE,
                       r.url[Len(r.url)], "static", r)

\* the URL map of app: the rule of @app.route('/sqlite.db') and the default
\* static rule; both accept GET, and so HEAD and OPTIONS
RouteMethods == {"GET", "HEAD", "OPTIONS"}
\* a catch-all rule in place of the fixed one
Route_catch_all(url) ==
    IF Len(url) >= 2 /\ Head(url) = "static" THEN "static" ELSE "serve_db"
Route(url) ==
    IF url = UrlDb THEN "serve_db"
    ELSE IF Len(url) >= 2 /\ Head(url) = "static" THEN "static"
    ELSE "none"

\* app.full_dispatch_request: routing errors are 404 and 405, OPTIONS is
\* answered by the framework, the view is called for GET and HEAD
dispatch(r) ==
    LET endpoint == Route(r.url)
    IN  IF endpoint = "none" THEN ErrorResponse(404, "none", NoPath)
        ELSE IF r.method \notin RouteMethods THEN ErrorResponse(405, "none", NoPath)
        ELSE IF r.method = "OPTIONS" THEN
            [ErrorResponse(200, "options", NoPath) EXCEPT !.body = NoBody]
        ELSE IF endpoint = "serve_db" THEN serve_db(r)
        ELSE static_view(r)

\* the server sends no body in answer to HEAD
strip_head(r, rv) == IF r.method = "HEAD" THEN [rv EXCEPT !.body = NoBody] ELSE rv

\* CORS headers on successful responses only
cors_success_only(r, rv) ==
    IF rv.status < 400
    THEN [rv EXCEPT !.acao = IF r.origin = NoOrigin THEN "*" ELSE r.origin]
    ELSE rv

\* CORS(app) with its defaults (origins *, always_send, intercept_exceptions):
\* every response, an error response too, gets Access-Control-Allow-Origin,
\* the request's origin when it names one and * otherwise
cors_after_request(r, rv) ==
    [rv EXCEPT !.acao = IF r.origin = NoOrigin THEN "*" ELSE r.origin]

\* the WSGI app: one request to its response
app(r) == strip_head(r, cors_after_request(r, dispatch(r)))

----------------------------------------------------------------------------
(* TCP ports *)

\* app.run(host='0.0.0.0', port=5000)
SrvPort == 5000
\* the port sqlite_server.py names in "--port", "8080"
WebPort == 8080
Ports == {SrvPort, WebPort}
\* a port is "free" or held by "db_server", "sqlite_web" or an "other" process

----------------------------------------------------------------------------
(* sqlite_server.py *)

\* the list without the read-only option
LauncherArgv_writable(db_path) ==
    [args |-> <<"sqlite_web", "--host", "0.0.0.0", "--port", "8080",
                "--no-browser">>,
     database |-> db_path]

\* the list with the port of db_server.py
LauncherArgv_port5000(db_path) ==
    [args |-> <<"sqlite_web", "--host", "0.0.0.0", "--port", "5000",
                "--no-browser", "--read-only">>,
     database |-> db_path]

\* the list given to subprocess.run: the program and its options, then db_path
LauncherArgv(db_path) ==
    [args |-> <<"sqlite_web", "--host", "0.0.0.0", "--port", "8080",
                "--no-browser", "--read-only">>,
     database |-> db_path]
NoArgv == [args |-> <<>>, database |-> NoPath]

\* the value that follows option opt in args ("" when opt is not there)
OptionValue(args, opt) ==
    IF \E i \in 1..(Len(args) - 1) : args[i] = opt
    THEN args[(CHOOSE i \in 1..(Len(args) - 1) : args[i] = opt) + 1]
    ELSE ""
HasFlag(args, flag) == \E i \in 1..Len(args) : args[i] = flag

\* the port sqlite_web binds: the number its --port option spells
ParsePort(str) ==
    CASE str = "8080" -> 8080
      [] str = "5000" -> 5000
      [] OTHER -> 0
ChildPort == ParsePort(OptionValue(argvL.args, "--port"))

----------------------------------------------------------------------------
(* Initial state: neither script has run a line yet *)

Init ==
    /\ cwd \in Cwds
    /\ fs \in [Files -> FileStates]
    /\ port \in [Ports -> {"free", "other"}]
    /\ srv = "init"
    /\ req = NoReq
    /\ resp = NoResp
    /\ pcL = "init"
    /\ dbPathL = NoPath
    /\ argvL = NoArgv
    /\ spawns = 0
    /\ child = "none"
    /\ childRc = -1
    /\ exitL = -1

----------------------------------------------------------------------------
(* The environment *)

\* somebody creates, deletes, rewrites or changes the permissions of a file
EnvChangeFile ==
    /\ \E p \in Files, st \in FileStates :
          /\ st # fs[p]
          /\ fs' = [fs EXCEPT ![p] = st]
    /\ UNCHANGED <<cwd, port, srvVars, lauVars>>

\* a process that is neither script takes a free port, or gives it back
EnvTakePort ==
    /\ \E p \in Ports :
          /\ port[p] = "free"
          /\ port' = [port EXCEPT ![p] = "other"]
    /\ UNCHANGED <<cwd, fs, srvVars, lauVars>>

EnvFreePort ==
    /\ \E p \in Ports :
          /\ port[p] = "other"
          /\ port' = [port EXCEPT ![p] = "free"]
    /\ UNCHANGED <<cwd, fs, srvVars, lauVars>>

----------------------------------------------------------------------------
(* db_server.py *)

\* app.run(host='0.0.0.0', port=5000): binds the port and serves, or fails
\* with the OS error when the port is taken.  The file is not looked at.
StartServer ==
    /\ srv = "init"
    /\ IF port[SrvPort] = "free"
       THEN /\ port' = [port EXCEPT ![SrvPort] = "db_server"]
            /\ srv' = "serving"
       ELSE /\ srv' = "failed"
            /\ UNCHANGED port
    /\ UNCHANGED <<cwd, fs, req, resp, lauVars>>

\* a handler that removes the file once it has sent it
HandleRequest_unlink(r) ==
    /\ srv = "serving"
    /\ req' = r
    /\ resp' = app(r)
    /\ fs' = IF resp'.status = 200 /\ resp'.endpoint = "serve_db"
             THEN [fs EXCEPT ![abspath(DbName)] = Absent]
             ELSE fs
    /\ UNCHANGED <<cwd, port, srv, lauVars>>

\* one request handled by the serving app
HandleRequest(r) ==
    /\ srv = "serving"
    /\ req' = r
    /\ resp' = app(r)
    /\ UNCHANGED <<cwd, fs, port, srv, lauVars>>

Serve == \E r \in Requests : HandleRequest(r)

----------------------------------------------------------------------------
(* sqlite_server.py and its child *)

\* line 6: db_path = os.path.abspath('sqlite.db')
ResolvePath ==
    /\ pcL = "init"
    /\ dbPathL' = abspath(DbName)
    /\ pcL' = "run"
    /\ UNCHANGED <<cwd, fs, port, srvVars, argvL, spawns, child, childRc, exitL>>

\* lines 12-19, the start of subprocess.run: the child is started with the
\* argument list, or the launch fails (no sqlite_web on PATH) with an
\* exception nobody catches, and the script ends with status 1
RunSubprocess ==
    /\ pcL = "run"
    /\ argvL' = LauncherArgv(dbPathL)
    /\ \/ /\ child' = "started"
          /\ spawns' = spawns + 1
          /\ pcL' = "wait"
          /\ UNCHANGED exitL
       \/ /\ pcL' = "exit"
          /\ exitL' = 1
          /\ UNCHANGED <<child, spawns>>
    /\ UNCHANGED <<cwd, fs, port, srvVars, dbPathL, childRc>>

\* sqlite_web binds the port of its --port option, or fails when it is taken
ChildBind ==
    /\ child = "started"
    /\ IF port[ChildPort] = "free"
       THEN /\ port' = [port EXCEPT ![ChildPort] = "sqlite_web"]
            /\ child' = "listening"
            /\ UNCHANGED childRc
       ELSE /\ child' = "exited"
            /\ childRc' = 1
            /\ UNCHANGED port
    /\ UNCHANGED <<cwd, fs, srvVars, pcL, dbPathL, argvL, spawns, exitL>>

\* sqlite_web exits, in success (it was stopped) or in failure (it cannot
\* open the database, it crashes)
ChildExit ==
    /\ child \in {"started", "listening"}
    /\ \E rc \in {0, 1} : childRc' = rc
    /\ child' = "exited"
    /\ port' = [p \in Ports |-> IF port[p] = "sqlite_web" THEN "free" ELSE port[p]]
    /\ UNCHANGED <<cwd, fs, srvVars, pcL, dbPathL, argvL, spawns, exitL>>

\* a supervising launcher: it starts the tool again when it has failed
WaitReturns_restart ==
    /\ pcL = "wait"
    /\ child = "exited"
    /\ IF childRc # 0 /\ spawns < 2
       THEN pcL' = "run" /\ UNCHANGED exitL
       ELSE pcL' = "exit" /\ exitL' = 0
    /\ UNCHANGED <<cwd, fs, port, srvVars, dbPathL, argvL, spawns, child, childRc>>

\* the end of subprocess.run: it waits for the child and returns a
\* CompletedProcess; the script does not look at its returncode (no check=True)
\* and ends, with status 0
WaitReturns ==
    /\ pcL = "wait"
    /\ child = "exited"
    /\ pcL' = "exit"
    /\ exitL' = 0
    /\ UNCHANGED <<cwd, fs, port, srvVars, dbPathL, argvL, spawns, child, childRc>>

----------------------------------------------------------------------------

\* the environment's steps
Env == EnvChangeFile \/ EnvTakePort \/ EnvFreePort

\* db_server.py running alone
SrvNext == Env \/ StartServer \/ Serve
SrvSpec == Init /\ [][SrvNext]_vars

\* sqlite_server.py running alone.  The interpreter runs the script's
\* statements one after the other, so each of its steps is taken once it can
\* be; when the child exits is up to the child.
LauNext == Env \/ ResolvePath \/ RunSubprocess \/ ChildBind \/ ChildExit \/ WaitReturns
LauSpec ==
    /\ Init
    /\ [][LauNext]_vars
    /\ WF_vars(ResolvePath)
    /\ WF_vars(RunSubprocess)
    /\ WF_vars(WaitReturns)

\* both scripts running side by side
Next == SrvNext \/ LauNext
Spec == Init /\ [][Next]_vars

----------------------------------------------------------------------------
(* Properties of db_server.py, checked under SrvSpec *)

\* sqlite.db as serve_db finds it when a request arrives
DbFile == Stat(abspath(DbName))

\* a GET of the route /sqlite.db
IsDbGet(r) == r.method = "GET" /\ r.url = UrlDb

\* the full download: 200, the SQLite type, the attachment name, the bytes
IsDownload(rv, data) ==
    /\ rv.status = 200
    /\ rv.mimetype = "application/x-sqlite3"
    /\ rv.disposition = <<"attachment", "sqlite.db">>
    /\ rv.body = FileBody(data)

C2_MissingFile ==
    [][\A r \in Requests :
          (HandleRequest(r) /\ IsDbGet(r) /\ DbFile.kind # "file")
              => /\ resp'.status >= 400
                 /\ resp'.body = ErrorPage
                 /\ resp'.disposition = NoDisposition
                 /\ resp'.endpoint = "serve_db"
                 /\ srv' = "serving"]_vars

\* a GET of /sqlite.db has just failed on the missing file, and the server
\* is still serving
C2_Witness ==
    /\ IsDbGet(req) /\ DbFile.kind = "absent"
    /\ resp.status = 500 /\ resp.body = ErrorPage
    /\ srv = "serving"


\* an Access-Control-Allow-Origin value that permits a request's origin
Permits(acao, origin) == acao = "*" \/ (origin # NoOrigin /\ acao = origin)

\* C6: every response, the file or an error response, carries a cross-origin
\* policy that permits the origin of its request.
C6_CorsEveryResponse ==
    resp # NoResp => Permits(resp.acao, req.origin)

\* an error response to a request that names its origin permits that origin
C6_Witness ==
    /\ resp.status = 500
    /\ req.origin = "http://a.example"
    /\ resp.acao = "http://a.example"

\* C7 as stated: the bytes of (a non-empty) sqlite.db are returned only for a
\* GET of exactly /sqlite.db, never for a request to another path.
C7_AsStated ==
    (resp.body.kind = "file" /\ resp.body.data # <<>> /\ resp.read = abspath(DbName))
        => (req.method = "GET" /\ req.url = UrlDb)

\* C7, amended: the view serve_db answers only GET and HEAD of exactly
\* /sqlite.db and always reads sqlite.db in the working directory; file
\* contents are returned only for GET, by serve_db or by the framework's
\* default static route /static/<filename>, which reads the file of that name
\* in the static folder next to the script; any other path is answered 404 and
\* any method but GET, HEAD and OPTIONS is answered 405.
C7_Routes ==
    /\ resp.endpoint = "serve_db" =>
          /\ req.url = UrlDb
          /\ req.method \in {"GET", "HEAD"}
          /\ resp.read = abspath(DbName)
    /\ resp.body.kind = "file" =>
          /\ req.method = "GET"
          /\ \/ req.url = UrlDb /\ resp.endpoint = "serve_db"
             \/ /\ Head(req.url) = "static"
                /\ resp.endpoint = "static"
                /\ resp.read = Join(StaticDir, RelPath(Tail(req.url)))
    /\ (resp # NoResp /\ req.url = UrlOther) => resp.status = 404
    /\ req.method = "POST" => resp.status \in {404, 405} /\ resp.read = NoPath

\* the static route has just served sqlite.db itself: the script was run from
\* its static folder
C7_Witness ==
    /\ req.url = UrlStatic /\ req.method = "GET"
    /\ resp.status = 200
    /\ resp.read = abspath(DbName)
    /\ resp.body.kind = "file" /\ resp.body.data # <<>>

\* the status serve_db gives request r for a file in state st
DbStatus(r, st) ==
    IF st.kind # "file" THEN 500
    ELSE IF r.cond = "fresh" THEN 304
    ELSE IF r.cond = "range" THEN (IF st.data = <<>> THEN 416 ELSE 206)
    ELSE 200

C10_NoEffect ==
    [][\A r \in Requests :
          HandleRequest(r) =>
              /\ fs' = fs
              /\ srv' = srv
              /\ port' = port
              /\ resp' = app(r)']_vars

\* a request for the absent file has failed and the file is still absent,
\* while the other tracked file is there
C10_Witness ==
    /\ IsDbGet(req) /\ resp.status = 500
    /\ DbFile.kind = "absent"
    /\ \E p \in DOMAIN fs : fs[p].kind = "file"

----------------------------------------------------------------------------
(* Properties of sqlite_server.py, checked under LauSpec *)

\* C3: whenever the launcher has started (or tried to start) the tool, it did
\* so with the program sqlite_web, host 0.0.0.0, port 8080, the no-browser
\* and the read-only flags, and the absolute path of sqlite.db in the working
\* directory as the database.
C3_Arguments ==
    (pcL \in {"wait", "exit"} \/ child # "none") =>
        /\ Head(argvL.args) = "sqlite_web"
        /\ OptionValue(argvL.args, "--host") = "0.0.0.0"
        /\ OptionValue(argvL.args, "--port") = "8080"
        /\ HasFlag(argvL.args, "--no-browser")
        /\ HasFlag(argvL.args, "--read-only")
        /\ argvL.database.abs
        /\ argvL.database = Join(cwd, DbName)

\* the tool runs, bound to the port it was given
C3_Witness ==
    /\ child = "listening"
    /\ port[8080] = "sqlite_web"
    /\ HasFlag(argvL.args, "--read-only")

\* C4 as stated, for the launcher: when the launch failed or the child exited
\* with an error, the launcher ends in a failure outcome.
C4_FailurePropagates ==
    (pcL = "exit" /\ (spawns = 0 \/ childRc > 0)) => exitL > 0

\* C5: the launcher starts at most one child and never another; it is not
\* past subprocess.run while the child runs; a child that has exited stays
\* exited; and once the child has exited the launcher terminates.
C5_OneChild ==
    /\ [](spawns <= 1)
    /\ []((pcL = "exit" /\ spawns = 1) => child = "exited")
    /\ [][child = "exited" => child' = "exited" /\ spawns' = spawns]_vars
    /\ (child = "exited" ~> pcL = "exit")

\* the launcher has ended after its one child exited with an error
C5_Witness ==
    /\ pcL = "exit"
    /\ child = "exited" /\ childRc = 1
    /\ spawns = 1

----------------------------------------------------------------------------
(* Property of the two scripts together, checked under Spec *)

\* C8: the two ports differ and neither script ever holds or asks for the
\* port of the other, so the server fails to start only when a process that
\* is neither script holds port 5000, and the tool fails to bind only when
\* such a process holds port 8080; no step that changes the state of one
\* script changes the state of the other or the file, and the file changes
\* only in steps in which neither script moves.
C8_Independent ==
    /\ [](/\ SrvPort # WebPort
          /\ port[SrvPort] # "sqlite_web"
          /\ port[WebPort] # "db_server"
          /\ child # "none" => ChildPort = WebPort)
    /\ [][/\ (srv = "init" /\ srv' = "failed") => port[SrvPort] = "other"
          /\ (child = "started" /\ child' = "exited" /\ port[ChildPort] # "free")
                => port[ChildPort] = "other"
          /\ srvVars' # srvVars => UNCHANGED <<lauVars, fs>>
          /\ lauVars' # lauVars => UNCHANGED <<srvVars, fs>>
          /\ fs' # fs => UNCHANGED <<srvVars, lauVars, port>>]_vars

\* both are up at once: the server on its port, the tool on its own
C8_Witness ==
    /\ srv = "serving" /\ port[SrvPort] = "db_server"
    /\ child = "listening" /\ port[WebPort] = "sqlite_web"

====
